---- MODULE Spec2Model ----
(***************************************************************************)
(* Attribute and uniform-block descriptors of _moderngl.py.                *)
(*                                                                         *)
(* The program state is the Python heap of descriptor objects (an object's *)
(* identity is its position in heap), the module-level dict                *)
(* ATTRIBUTE_LOOKUP_TABLE, the bindings held by the contexts the uniform   *)
(* blocks refer to, a registry dict keyed by attribute descriptor, and the *)
(* record of the last operation with its arguments and result.             *)
(***************************************************************************)
EXTENDS Integers, Sequences, FiniteSets, TLC

VARIABLES heap, ATTRIBUTE_LOOKUP_TABLE, ctx_bindings, registry, ret

vars == <<heap, ATTRIBUTE_LOOKUP_TABLE, ctx_bindings, registry, ret>>

(***************************************************************************)
(* Bounds and input sets.                                                  *)
(***************************************************************************)
\* Largest array length passed to make_attribute; lengths run from -MaxLen.
MaxLen == 3
\* Number of live descriptor objects in the specification of the system.
MaxObjects == 2

None == "None"

ArrayLengths == (0 - MaxLen) .. MaxLen
Names == {"in_vert", "in_color"}
Programs == {1, 2}
Locations == {0, 1}
Indices == {0, 1}
Sizes == {16}
Contexts == {1, 2}
BindingValues == {0, 1}
BlockNames == {"Common"}

(***************************************************************************)
(* The literal of ATTRIBUTE_LOOKUP_TABLE: type code -> (dimension, scalar   *)
(* type, rows, row length, normalizable, shape).                           *)
(***************************************************************************)
TABLE_LITERAL ==
    (\H1404 :> <<1, \H1404, 1, 1, FALSE, "i">>) @@
    (\H8b53 :> <<2, \H1404, 1, 2, FALSE, "i">>) @@
    (\H8b54 :> <<3, \H1404, 1, 3, FALSE, "i">>) @@
    (\H8b55 :> <<4, \H1404, 1, 4, FALSE, "i">>) @@
    (\H1405 :> <<1, \H1405, 1, 1, FALSE, "i">>) @@
    (\H8dc6 :> <<2, \H1405, 1, 2, FALSE, "i">>) @@
    (\H8dc7 :> <<3, \H1405, 1, 3, FALSE, "i">>) @@
    (\H8dc8 :> <<4, \H1405, 1, 4, FALSE, "i">>) @@
    (\H1406 :> <<1, \H1406, 1, 1, TRUE, "f">>) @@
    (\H8b50 :> <<2, \H1406, 1, 2, TRUE, "f">>) @@
    (\H8b51 :> <<3, \H1406, 1, 3, TRUE, "f">>) @@
    (\H8b52 :> <<4, \H1406, 1, 4, TRUE, "f">>) @@
    (\H140a :> <<1, \H140a, 1, 1, FALSE, "d">>) @@
    (\H8ffc :> <<2, \H140a, 1, 2, FALSE, "d">>) @@
    (\H8ffd :> <<3, \H140a, 1, 3, FALSE, "d">>) @@
    (\H8ffe :> <<4, \H140a, 1, 4, FALSE, "d">>) @@
    (\H8b5a :> <<4, \H1406, 2, 2, TRUE, "f">>) @@
    (\H8b65 :> <<6, \H1406, 2, 3, TRUE, "f">>) @@
    (\H8b66 :> <<8, \H1406, 2, 4, TRUE, "f">>) @@
    (\H8b67 :> <<6, \H1406, 3, 2, TRUE, "f">>) @@
    (\H8b5b :> <<9, \H1406, 3, 3, TRUE, "f">>) @@
    (\H8b68 :> <<12, \H1406, 3, 4, TRUE, "f">>) @@
    (\H8b69 :> <<8, \H1406, 4, 2, TRUE, "f">>) @@
    (\H8b6a :> <<12, \H1406, 4, 3, TRUE, "f">>) @@
    (\H8b5c :> <<16, \H1406, 4, 4, TRUE, "f">>) @@
    (\H8f46 :> <<4, \H140a, 2, 2, FALSE, "d">>) @@
    (\H8f49 :> <<6, \H140a, 2, 3, FALSE, "d">>) @@
    (\H8f4a :> <<8, \H140a, 2, 4, FALSE, "d">>) @@
    (\H8f4b :> <<6, \H140a, 3, 2, FALSE, "d">>) @@
    (\H8f47 :> <<9, \H140a, 3, 3, FALSE, "d">>) @@
    (\H8f4c :> <<12, \H140a, 3, 4, FALSE, "d">>) @@
    (\H8f4d :> <<8, \H140a, 4, 2, FALSE, "d">>) @@
    (\H8f4e :> <<12, \H140a, 4, 3, FALSE, "d">>) @@
    (\H8f48 :> <<16, \H140a, 4, 4, FALSE, "d">>)

\* A default entry whose component count is 0.
FALLBACK_zero == <<0, 0, 1, 1, FALSE, "?">>

\* The default of ATTRIBUTE_LOOKUP_TABLE.get in make_attribute.
FALLBACK == <<1, 0, 1, 1, FALSE, "?">>

(***************************************************************************)
(* The documentation of the Attribute properties.                          *)
(***************************************************************************)
\* The GLSL type each key of the table stands for, in the order of the
\* table and of the dimension docstring.
GLSL_TYPE ==
    [int |-> \H1404, ivec2 |-> \H8b53, ivec3 |-> \H8b54, ivec4 |-> \H8b55,
     uint |-> \H1405, uvec2 |-> \H8dc6, uvec3 |-> \H8dc7, uvec4 |-> \H8dc8,
     float |-> \H1406, vec2 |-> \H8b50, vec3 |-> \H8b51, vec4 |-> \H8b52,
     double |-> \H140a, dvec2 |-> \H8ffc, dvec3 |-> \H8ffd, dvec4 |-> \H8ffe,
     mat2 |-> \H8b5a, mat2x3 |-> \H8b65, mat2x4 |-> \H8b66,
     mat3x2 |-> \H8b67, mat3 |-> \H8b5b, mat3x4 |-> \H8b68,
     mat4x2 |-> \H8b69, mat4x3 |-> \H8b6a, mat4 |-> \H8b5c,
     dmat2 |-> \H8f46, dmat2x3 |-> \H8f49, dmat2x4 |-> \H8f4a,
     dmat3x2 |-> \H8f4b, dmat3 |-> \H8f47, dmat3x4 |-> \H8f4c,
     dmat4x2 |-> \H8f4d, dmat4x3 |-> \H8f4e, dmat4 |-> \H8f48]

GLSLNames == DOMAIN GLSL_TYPE

\* The table of the docstring of Attribute.dimension.
DOC_DIMENSION ==
    [int |-> 1, ivec2 |-> 2, ivec3 |-> 3, ivec4 |-> 4,
     uint |-> 1, uvec2 |-> 2, uvec3 |-> 3, uvec4 |-> 4,
     float |-> 1, vec2 |-> 2, vec3 |-> 3, vec4 |-> 4,
     double |-> 1, dvec2 |-> 2, dvec3 |-> 3, dvec4 |-> 4,
     mat2 |-> 4, mat2x3 |-> 6, mat2x4 |-> 8,
     mat3x2 |-> 6, mat3 |-> 9, mat3x4 |-> 12,
     mat4x2 |-> 8, mat4x3 |-> 12, mat4 |-> 16,
     dmat2 |-> 4, dmat2x3 |-> 6, dmat2x4 |-> 8,
     dmat3x2 |-> 6, dmat3 |-> 9, dmat3x4 |-> 12,
     dmat4x2 |-> 8, dmat4x3 |-> 12, dmat4 |-> 16]

\* The table of the docstring of Attribute.shape, with the types it lists:
\* it names mat4x2 and dmat4x2 twice and does not list mat3x2 and dmat3x2.
DOC_SHAPE ==
    [int |-> "i", ivec2 |-> "i", ivec3 |-> "i", ivec4 |-> "i",
     uint |-> "I", uvec2 |-> "I", uvec3 |-> "I", uvec4 |-> "I",
     float |-> "f", vec2 |-> "f", vec3 |-> "f", vec4 |-> "f",
     double |-> "d", dvec2 |-> "d", dvec3 |-> "d", dvec4 |-> "d",
     mat2 |-> "f", mat3 |-> "f", mat4 |-> "f",
     mat2x3 |-> "f", mat2x4 |-> "f", mat3x4 |-> "f",
     mat4x2 |-> "f", mat4x3 |-> "f",
     dmat2 |-> "d", dmat3 |-> "d", dmat4 |-> "d",
     dmat2x3 |-> "d", dmat2x4 |-> "d", dmat3x4 |-> "d",
     dmat4x2 |-> "d", dmat4x3 |-> "d"]

\* dict.get(key, default)
DictGet(d, key, default) == IF key \in DOMAIN d THEN d[key] ELSE default

(***************************************************************************)
(* The classes.  A new object has every field None (the __init__ methods). *)
(***************************************************************************)
Attribute_init ==
    [cls |-> "Attribute", _location |-> None, _array_length |-> None,
     _dimension |-> None, _shape |-> None, _name |-> None, extra |-> None]

UniformBlock_init ==
    [cls |-> "UniformBlock", _program_obj |-> None, _index |-> None,
     _size |-> None, _name |-> None, _ctx |-> None, extra |-> None]

\* An equality by value: two references are equal when all fields match.
Attribute_eq_by_value(h, a, b) == h[a] = h[b]

\* Attribute defines neither __eq__ nor __hash__: two references are equal
\* exactly when they are one object of the heap h.
Attribute_eq(h, a, b) == a = b

\* make_attribute taking the dimension from the row length of the entry.
make_attribute_dim_row(name, gl_type, program_obj, location, array_length) ==
    LET tmp == DictGet(ATTRIBUTE_LOOKUP_TABLE, gl_type, FALLBACK)
        dimension == tmp[4]
        scalar_type == tmp[2]
        rows_length == tmp[3]
        row_length == tmp[4] * array_length
        normalizable == tmp[5]
        shape == tmp[6]
    IN  [cls |-> "Attribute",
         extra |-> Attribute_init.extra,
         _type |-> gl_type,
         _program_obj |-> program_obj,
         _scalar_type |-> scalar_type,
         _rows_length |-> rows_length,
         _row_length |-> row_length,
         _normalizable |-> normalizable,
         _location |-> location,
         _array_length |-> array_length,
         _dimension |-> dimension,
         _shape |-> shape,
         _name |-> name]

\* make_attribute scaling the dimension by the array length.
make_attribute_dim_scaled(name, gl_type, program_obj, location, array_length) ==
    LET tmp == DictGet(ATTRIBUTE_LOOKUP_TABLE, gl_type, FALLBACK)
        dimension == tmp[1] * array_length
        scalar_type == tmp[2]
        rows_length == tmp[3]
        row_length == tmp[4] * array_length
        normalizable == tmp[5]
        shape == tmp[6]
    IN  [cls |-> "Attribute",
         extra |-> Attribute_init.extra,
         _type |-> gl_type,
         _program_obj |-> program_obj,
         _scalar_type |-> scalar_type,
         _rows_length |-> rows_length,
         _row_length |-> row_length,
         _normalizable |-> normalizable,
         _location |-> location,
         _array_length |-> array_length,
         _dimension |-> dimension,
         _shape |-> shape,
         _name |-> name]

\* make_attribute scaling the row count instead of the row length.
make_attribute_rows_scaled(name, gl_type, program_obj, location, array_length) ==
    LET tmp == DictGet(ATTRIBUTE_LOOKUP_TABLE, gl_type, FALLBACK)
        dimension == tmp[1]
        scalar_type == tmp[2]
        rows_length == tmp[3] * array_length
        row_length == tmp[4]
        normalizable == tmp[5]
        shape == tmp[6]
    IN  [cls |-> "Attribute",
         extra |-> Attribute_init.extra,
         _type |-> gl_type,
         _program_obj |-> program_obj,
         _scalar_type |-> scalar_type,
         _rows_length |-> rows_length,
         _row_length |-> row_length,
         _normalizable |-> normalizable,
         _location |-> location,
         _array_length |-> array_length,
         _dimension |-> dimension,
         _shape |-> shape,
         _name |-> name]

\* make_attribute raising an array length below 1 to 1.
make_attribute_clamped(name, gl_type, program_obj, location, array_length) ==
    LET tmp == DictGet(ATTRIBUTE_LOOKUP_TABLE, gl_type, FALLBACK)
        dimension == tmp[1]
        scalar_type == tmp[2]
        rows_length == tmp[3]
        row_length == tmp[4] * array_length
        normalizable == tmp[5]
        shape == tmp[6]
    IN  [cls |-> "Attribute",
         extra |-> Attribute_init.extra,
         _type |-> gl_type,
         _program_obj |-> program_obj,
         _scalar_type |-> scalar_type,
         _rows_length |-> rows_length,
         _row_length |-> row_length,
         _normalizable |-> normalizable,
         _location |-> location,
         _array_length |-> IF array_length < 1 THEN 1 ELSE array_length,
         _dimension |-> dimension,
         _shape |-> shape,
         _name |-> name]

\* make_attribute: the object it returns.
make_attribute(name, gl_type, program_obj, location, array_length) ==
    LET tmp == DictGet(ATTRIBUTE_LOOKUP_TABLE, gl_type, FALLBACK)
        dimension == tmp[1]
        scalar_type == tmp[2]
        rows_length == tmp[3]
        row_length == tmp[4] * array_length
        normalizable == tmp[5]
        shape == tmp[6]
    IN  [cls |-> "Attribute",
         extra |-> Attribute_init.extra,
         _type |-> gl_type,
         _program_obj |-> program_obj,
         _scalar_type |-> scalar_type,
         _rows_length |-> rows_length,
         _row_length |-> row_length,
         _normalizable |-> normalizable,
         _location |-> location,
         _array_length |-> array_length,
         _dimension |-> dimension,
         _shape |-> shape,
         _name |-> name]

\* make_uniform_block: the object it returns.
make_uniform_block(name, program_obj, index, size, ctx) ==
    [cls |-> "UniformBlock",
     extra |-> UniformBlock_init.extra,
     _name |-> name,
     _program_obj |-> program_obj,
     _index |-> index,
     _size |-> size,
     _ctx |-> ctx]

(***************************************************************************)
(* The stub context: one mapping (program, index) -> binding per context,  *)
(* every binding 0 until it is set.  store is the mapping of one context.  *)
(***************************************************************************)
_get_ubo_binding(store, program_obj, index) == store[<<program_obj, index>>]

_set_ubo_binding(store, program_obj, index, binding) ==
    [store EXCEPT ![<<program_obj, index>>] = binding]

\* A registry dict keyed by attribute descriptor: d[key] = value, the key
\* found by the descriptor's equality.
DictSetItem(h, d, key, value) ==
    IF \E i \in 1..Len(d) : Attribute_eq(h, d[i].key, key)
    THEN [i \in 1..Len(d) |->
            IF Attribute_eq(h, d[i].key, key)
            THEN [key |-> d[i].key, value |-> value] ELSE d[i]]
    ELSE Append(d, [key |-> key, value |-> value])

(***************************************************************************)
(* The properties of UniformBlock.  h is the heap, cb the contexts'        *)
(* bindings, self the object.  A getter is the value it returns, a setter  *)
(* the contexts' bindings after it.                                        *)
(***************************************************************************)
UniformBlock_binding_get(h, cb, self) ==
    _get_ubo_binding(cb[h[self]._ctx], h[self]._program_obj, h[self]._index)

\* A binding setter that passes index 0 instead of the stored index.
UniformBlock_binding_set_index0(h, cb, self, binding) ==
    [cb EXCEPT ![h[self]._ctx] =
        _set_ubo_binding(@, h[self]._program_obj, 0, binding)]

UniformBlock_binding_set(h, cb, self, binding) ==
    [cb EXCEPT ![h[self]._ctx] =
        _set_ubo_binding(@, h[self]._program_obj, h[self]._index, binding)]

\* A value getter that returns the stored index.
UniformBlock_value_get_index(h, cb, self) == h[self]._index

UniformBlock_value_get(h, cb, self) ==
    _get_ubo_binding(cb[h[self]._ctx], h[self]._program_obj, h[self]._index)

\* A value setter that sets the binding of every block of the program.
UniformBlock_value_set_program(h, cb, self, value) ==
    [cb EXCEPT ![h[self]._ctx] =
        [k \in DOMAIN @ |-> IF k[1] = h[self]._program_obj THEN value ELSE @[k]]]

UniformBlock_value_set(h, cb, self, value) ==
    [cb EXCEPT ![h[self]._ctx] =
        _set_ubo_binding(@, h[self]._program_obj, h[self]._index, value)]

\* The read-only properties of Attribute.
Attribute_location(h, self) == h[self]._location
Attribute_array_length(h, self) == h[self]._array_length
Attribute_dimension(h, self) == h[self]._dimension
Attribute_shape(h, self) == h[self]._shape
Attribute_name(h, self) == h[self]._name

\* The read-only properties of UniformBlock.
UniformBlock_name(h, self) == h[self]._name
UniformBlock_index(h, self) == h[self]._index
UniformBlock_size(h, self) == h[self]._size

AttributeIds == {o \in 1..Len(heap) : heap[o].cls = "Attribute"}
UniformBlockIds == {o \in 1..Len(heap) : heap[o].cls = "UniformBlock"}

(***************************************************************************)
(* Initial state: the module is imported, no descriptor exists.            *)
(***************************************************************************)
Init ==
    /\ heap = <<>>
    /\ ATTRIBUTE_LOOKUP_TABLE = TABLE_LITERAL
    /\ ctx_bindings = [c \in Contexts |-> [k \in Programs \X Indices |-> 0]]
    /\ registry = <<>>
    /\ ret = [op |-> "import"]

(***************************************************************************)
(* Operations.                                                             *)
(***************************************************************************)
\* A call of make_attribute; the caller files the result in the registry.
MakeAttribute(name, gl_type, program_obj, location, array_length) ==
    LET res == make_attribute(name, gl_type, program_obj, location, array_length)
        h == Append(heap, res)
    IN  /\ heap' = h
        /\ registry' = DictSetItem(h, registry, Len(h), Len(registry) + 1)
        /\ ret' = [op |-> "make_attribute",
                   args |-> [name |-> name, gl_type |-> gl_type,
                             program_obj |-> program_obj, location |-> location,
                             array_length |-> array_length],
                   res |-> Len(h)]
        /\ UNCHANGED <<ATTRIBUTE_LOOKUP_TABLE, ctx_bindings>>

\* A call of make_uniform_block.
MakeUniformBlock(name, program_obj, index, size, ctx) ==
    LET res == make_uniform_block(name, program_obj, index, size, ctx)
        h == Append(heap, res)
    IN  /\ heap' = h
        /\ ret' = [op |-> "make_uniform_block",
                   args |-> [name |-> name, program_obj |-> program_obj,
                             index |-> index, size |-> size, ctx |-> ctx],
                   res |-> Len(h)]
        /\ UNCHANGED <<ATTRIBUTE_LOOKUP_TABLE, ctx_bindings, registry>>

\* x = block.binding
GetBinding(self) ==
    /\ ret' = [op |-> "binding.get", self |-> self,
               res |-> UniformBlock_binding_get(heap, ctx_bindings, self)]
    /\ UNCHANGED <<heap, ATTRIBUTE_LOOKUP_TABLE, ctx_bindings, registry>>

\* block.binding = v
SetBinding(self, v) ==
    /\ ctx_bindings' = UniformBlock_binding_set(heap, ctx_bindings, self, v)
    /\ ret' = [op |-> "binding.set", self |-> self, arg |-> v]
    /\ UNCHANGED <<heap, ATTRIBUTE_LOOKUP_TABLE, registry>>

\* x = block.value
GetValue(self) ==
    /\ ret' = [op |-> "value.get", self |-> self,
               res |-> UniformBlock_value_get(heap, ctx_bindings, self)]
    /\ UNCHANGED <<heap, ATTRIBUTE_LOOKUP_TABLE, ctx_bindings, registry>>

\* block.value = v
SetValue(self, v) ==
    /\ ctx_bindings' = UniformBlock_value_set(heap, ctx_bindings, self, v)
    /\ ret' = [op |-> "value.set", self |-> self, arg |-> v]
    /\ UNCHANGED <<heap, ATTRIBUTE_LOOKUP_TABLE, registry>>

\* The binding of a block is set on the context without going through a
\* descriptor.
ContextSetBinding(ctx, program_obj, index, v) ==
    /\ ctx_bindings' = [ctx_bindings EXCEPT ![ctx] =
                          _set_ubo_binding(@, program_obj, index, v)]
    /\ ret' = [op |-> "ctx.set", ctx |-> ctx, program_obj |-> program_obj,
               index |-> index, arg |-> v]
    /\ UNCHANGED <<heap, ATTRIBUTE_LOOKUP_TABLE, registry>>

(***************************************************************************)
(* The factory alone: one call of make_attribute from the initial state,   *)
(* on every type code of the table, on unknown codes, and on every array   *)
(* length from -MaxLen to MaxLen.                                          *)
(***************************************************************************)
UnknownTypes == {0, \H1400, \H8b5d}
TypeCodes == DOMAIN TABLE_LITERAL \cup UnknownTypes

NextMake ==
    /\ heap = <<>>
    /\ \E name \in Names, gl_type \in TypeCodes, program_obj \in Programs,
          location \in Locations, array_length \in ArrayLengths :
        MakeAttribute(name, gl_type, program_obj, location, array_length)

SpecMake == Init /\ [][NextMake]_vars

(***************************************************************************)
(* The system: descriptors of both kinds are made and the bindings read    *)
(* and written.                                                            *)
(***************************************************************************)
SysTypes == {\H1405, \H8b6a, 0}
SysLengths == {1, MaxLen}
SysNames == {"in_vert"}
SysLocations == {0}

Next ==
    \/ \E name \in SysNames, gl_type \in SysTypes, program_obj \in Programs,
          location \in SysLocations, array_length \in SysLengths :
        /\ Len(heap) < MaxObjects
        /\ MakeAttribute(name, gl_type, program_obj, location, array_length)
    \/ \E name \in BlockNames, program_obj \in Programs, index \in Indices,
          size \in Sizes, ctx \in Contexts :
        /\ Len(heap) < MaxObjects
        /\ MakeUniformBlock(name, program_obj, index, size, ctx)
    \/ \E self \in UniformBlockIds : GetBinding(self)
    \/ \E self \in UniformBlockIds, v \in BindingValues : SetBinding(self, v)
    \/ \E self \in UniformBlockIds : GetValue(self)
    \/ \E self \in UniformBlockIds, v \in BindingValues : SetValue(self, v)
    \/ \E self \in UniformBlockIds, v \in BindingValues :
        ContextSetBinding(heap[self]._ctx, heap[self]._program_obj,
                          heap[self]._index, v)

Spec == Init /\ [][Next]_vars

(***************************************************************************)
(* Properties of make_attribute (SpecMake).                                *)
(***************************************************************************)
\* The last operation was a call of make_attribute.
Made == ret.op = "make_attribute"

\* The GLSL names of a type code.
NamesOf(gl_type) == {n \in GLSLNames : GLSL_TYPE[n] = gl_type}

\* The documented component count of one element of a type; 1 for a code
\* the documentation does not list.
ComponentCount(gl_type) ==
    IF NamesOf(gl_type) = {} THEN 1
    ELSE DOC_DIMENSION[CHOOSE n \in NamesOf(gl_type) : TRUE]

\* C1: for every type code of ATTRIBUTE_LOOKUP_TABLE, make_attribute with
\* array length 1 returns a descriptor whose dimension is the component
\* count the dimension docstring gives for the GLSL type of that code.
C1_DimensionIsDocumented ==
    (Made /\ ret.args.gl_type \in DOMAIN ATTRIBUTE_LOOKUP_TABLE
          /\ ret.args.array_length = 1)
    => /\ NamesOf(ret.args.gl_type) # {}
       /\ \A n \in NamesOf(ret.args.gl_type) :
            Attribute_dimension(heap, ret.res) = DOC_DIMENSION[n]

C1_Witness ==
    /\ Made
    /\ ret.args.gl_type = GLSL_TYPE.dmat3x4
    /\ ret.args.array_length = 1
    /\ Attribute_dimension(heap, ret.res) = 12

\* The scalar kind of a GLSL type: "i" for int and ivec2..ivec4, "I" for
\* uint and uvec2..uvec4, "d" for double, dvec2..dvec4 and the dmat types,
\* "f" for float, vec2..vec4 and the mat types.
ScalarKind(n) ==
    IF n \in {"int", "ivec2", "ivec3", "ivec4"} THEN "i"
    ELSE IF n \in {"uint", "uvec2", "uvec3", "uvec4"} THEN "I"
    ELSE IF n \in {"double", "dvec2", "dvec3", "dvec4", "dmat2", "dmat2x3",
                   "dmat2x4", "dmat3x2", "dmat3", "dmat3x4", "dmat4x2",
                   "dmat4x3", "dmat4"} THEN "d"
    ELSE "f"

\* C2: for every type code of ATTRIBUTE_LOOKUP_TABLE, the shape of the
\* descriptor is the character of the scalar kind of the type ("i" signed,
\* "I" unsigned, "f" float, "d" double), which is also the character the
\* shape docstring gives for every type it lists.
C2_ShapeIsScalarKind ==
    (Made /\ ret.args.gl_type \in DOMAIN ATTRIBUTE_LOOKUP_TABLE)
    => \A n \in NamesOf(ret.args.gl_type) :
         /\ Attribute_shape(heap, ret.res) = ScalarKind(n)
         /\ n \in DOMAIN DOC_SHAPE
              => Attribute_shape(heap, ret.res) = DOC_SHAPE[n]

\* C3: for a type code that is no key of ATTRIBUTE_LOOKUP_TABLE the call
\* returns a descriptor with dimension 1, shape "?", scalar type 0, row
\* count 1, row length 1 * array_length, and not normalizable.
C3_UnknownTypeFallback ==
    (Made /\ ret.args.gl_type \notin DOMAIN ATTRIBUTE_LOOKUP_TABLE)
    => /\ ret.res \in AttributeIds
       /\ Attribute_dimension(heap, ret.res) = 1
       /\ Attribute_shape(heap, ret.res) = "?"
       /\ heap[ret.res]._scalar_type = 0
       /\ heap[ret.res]._rows_length = 1
       /\ heap[ret.res]._row_length = 1 * ret.args.array_length
       /\ heap[ret.res]._normalizable = FALSE

C3_Witness ==
    /\ Made
    /\ ret.args.gl_type = \H8b5d
    /\ ret.args.array_length = 0 - 1
    /\ Attribute_shape(heap, ret.res) = "?"
    /\ heap[ret.res]._row_length = 0 - 1

\* C4 as stated: the dimension of a descriptor is array_length times the
\* component count of one element of its type, for every array length
\* n >= 1.
C4_DimensionTimesArrayLength ==
    (Made /\ ret.args.array_length >= 1)
    => Attribute_dimension(heap, ret.res)
         = ret.args.array_length * ComponentCount(ret.args.gl_type)

\* C4 amended: the dimension of a descriptor is the component count of one
\* element of its type whatever the array length n >= 1; it is n times
\* that count only when n = 1.
C4_DimensionPerElement ==
    (Made /\ ret.args.array_length >= 1)
    => /\ Attribute_dimension(heap, ret.res) = ComponentCount(ret.args.gl_type)
       /\ (Attribute_dimension(heap, ret.res)
             = ret.args.array_length * ComponentCount(ret.args.gl_type))
          <=> (ret.args.array_length = 1)

C4_Witness ==
    /\ Made
    /\ ret.args.gl_type = GLSL_TYPE.vec3
    /\ ret.args.array_length = 2
    /\ Attribute_dimension(heap, ret.res) = 3

\* C7: for every type code of ATTRIBUTE_LOOKUP_TABLE and every array length
\* n > 1, _row_length is n times the per-row component count of the table
\* entry, and _rows_length and the table entry are not scaled.
C7_RowLengthScaled ==
    (Made /\ ret.args.gl_type \in DOMAIN TABLE_LITERAL
          /\ ret.args.array_length > 1)
    => /\ heap[ret.res]._row_length
            = ret.args.array_length * TABLE_LITERAL[ret.args.gl_type][4]
       /\ heap[ret.res]._rows_length = TABLE_LITERAL[ret.args.gl_type][3]
       /\ ATTRIBUTE_LOOKUP_TABLE[ret.args.gl_type]
            = TABLE_LITERAL[ret.args.gl_type]

C7_Witness ==
    /\ Made
    /\ ret.args.gl_type = GLSL_TYPE.mat4x3
    /\ ret.args.array_length = 3
    /\ heap[ret.res]._row_length = 9
    /\ heap[ret.res]._rows_length = 4

\* C8 as stated: every attribute descriptor has array_length >= 1, whatever
\* array length make_attribute was given.
C8_ArrayLengthAtLeastOne ==
    \A o \in AttributeIds : Attribute_array_length(heap, o) >= 1

\* C8 amended: the array_length of a descriptor is the array length given
\* to make_attribute, unchanged; it is >= 1 exactly when the given length
\* is >= 1.
C8_ArrayLengthIsArgument ==
    Made
    => /\ Attribute_array_length(heap, ret.res) = ret.args.array_length
       /\ (Attribute_array_length(heap, ret.res) >= 1)
          <=> (ret.args.array_length >= 1)

C8_Witness ==
    /\ Made
    /\ ret.args.array_length = 0
    /\ Attribute_array_length(heap, ret.res) = 0

(***************************************************************************)
(* Properties of the system (Spec).                                        *)
(***************************************************************************)
\* The binding the context of block d holds for the block's (program, index).
Held(cb, d) == cb[heap[d]._ctx][<<heap[d]._program_obj, heap[d]._index>>]

\* Blocks d and e name the same binding of the same context.
SameKey(d, e) ==
    /\ heap[d]._ctx = heap[e]._ctx
    /\ heap[d]._program_obj = heap[e]._program_obj
    /\ heap[d]._index = heap[e]._index

Reads == {"binding.get", "value.get"}
Writes == {"binding.set", "value.set"}

\* C5: an assignment of V to binding reaches the context under the
\* descriptor's stored program and index, and a read of binding that
\* follows it returns V, whatever assignments came before.
C5_BindingSetThenGet ==
    [][ /\ (ret'.op = "binding.set")
            => ctx_bindings'[heap[ret'.self]._ctx]
                   [<<heap[ret'.self]._program_obj, heap[ret'.self]._index>>]
                 = ret'.arg
        /\ (ret.op = "binding.set" /\ ret'.op = "binding.get"
              /\ ret'.self = ret.self)
            => ret'.res = ret.arg ]_vars

C5_Witness ==
    /\ ret.op = "binding.get"
    /\ ret.res = 1
    /\ heap[ret.self]._index = 1
    /\ \E d \in UniformBlockIds : ~SameKey(d, ret.self) /\ Held(ctx_bindings, d) = 0

\* C6: two attribute descriptors are never equal, also when all their
\* fields match, and the registry keyed by descriptor holds one entry for
\* each call of make_attribute.
C6_DescriptorsDistinct ==
    /\ \A a, b \in AttributeIds : a # b => ~Attribute_eq(heap, a, b)
    /\ Len(registry) = Cardinality(AttributeIds)
    /\ \A i, j \in 1..Len(registry) :
         i # j => ~Attribute_eq(heap, registry[i].key, registry[j].key)

C6_Witness ==
    /\ \E a, b \in AttributeIds : a # b /\ heap[a] = heap[b]
    /\ Len(registry) = 2

\* C9: a read of binding or of value returns what the context holds for
\* the descriptor's (program, index) at the time of the read: after an
\* assignment through binding or value, or a change made on the context
\* itself, every descriptor of the same context, program and index reads
\* the new value through both properties.
C9_BindingIsLive ==
    /\ \A d \in UniformBlockIds :
         /\ UniformBlock_binding_get(heap, ctx_bindings, d) = Held(ctx_bindings, d)
         /\ UniformBlock_value_get(heap, ctx_bindings, d) = Held(ctx_bindings, d)
    /\ ret.op \in Reads => ret.res = Held(ctx_bindings, ret.self)
    /\ ret.op \in Writes =>
         \A d \in UniformBlockIds : SameKey(d, ret.self) =>
            /\ UniformBlock_binding_get(heap, ctx_bindings, d) = ret.arg
            /\ UniformBlock_value_get(heap, ctx_bindings, d) = ret.arg
    /\ ret.op = "ctx.set" =>
         \A d \in UniformBlockIds :
            (/\ heap[d]._ctx = ret.ctx
             /\ heap[d]._program_obj = ret.program_obj
             /\ heap[d]._index = ret.index) =>
            /\ UniformBlock_binding_get(heap, ctx_bindings, d) = ret.arg
            /\ UniformBlock_value_get(heap, ctx_bindings, d) = ret.arg

C9_Witness ==
    /\ ret.op = "value.set"
    /\ ret.arg = 1
    /\ \E d \in UniformBlockIds :
         /\ d # ret.self
         /\ SameKey(d, ret.self)
         /\ UniformBlock_binding_get(heap, ctx_bindings, d) = 1

\* C10: no operation changes ATTRIBUTE_LOOKUP_TABLE or a field of a
\* descriptor that exists; an assignment to binding or value changes only
\* the context's entry for the descriptor's (program, index); making a
\* descriptor or reading a binding changes no binding.
C10_Frame ==
    [][ /\ ATTRIBUTE_LOOKUP_TABLE' = ATTRIBUTE_LOOKUP_TABLE
        /\ ATTRIBUTE_LOOKUP_TABLE' = TABLE_LITERAL
        /\ Len(heap') >= Len(heap)
        /\ \A o \in 1..Len(heap) : heap'[o] = heap[o]
        /\ (ret'.op \in Writes) =>
             \A c \in Contexts, k \in Programs \X Indices :
                (c # heap[ret'.self]._ctx
                   \/ k # <<heap[ret'.self]._program_obj, heap[ret'.self]._index>>)
                => ctx_bindings'[c][k] = ctx_bindings[c][k]
        /\ (ret'.op \in Reads \cup {"make_attribute", "make_uniform_block"})
             => ctx_bindings' = ctx_bindings ]_vars

C10_Witness ==
    /\ ret.op \in Writes
    /\ ret.arg = 1
    /\ AttributeIds # {}
    /\ \E c \in Contexts, k \in Programs \X Indices :
         /\ ctx_bindings[c][k] = 1
         /\ \A c2 \in Contexts, k2 \in Programs \X Indices :
              (c2 # c \/ k2 # k) => ctx_bindings[c2][k2] = 0

====
